---- MODULE Spec2Model ----
(***************************************************************************)
(* Model of src/db/translate/relalgFromAst.ts: the two translators         *)
(* relalgFromSQLAstRoot and relalgFromRelalgAstRoot, which turn a SQL-AST  *)
(* or a relational-algebra AST into a tree of RANode objects.              *)
(*                                                                         *)
(* RANode objects are mutable and have identity, so they live in a heap:   *)
(* a sequence of object records, an object's id being its index.  A tree   *)
(* is the id of its root; child and child2 hold ids (NoNode for none).     *)
(* A thrown exception is kept in the field err of the threaded translation *)
(* state; once it is set every later step of the translation is skipped.   *)
(* The field log of that state is a history variable: what each call of    *)
(* rec returned and which node each stage of parseStatement built, keyed   *)
(* by the codeInfo of the AST node (unique within an input).               *)
(***************************************************************************)
EXTENDS Integers, Sequences, FiniteSets, TLC

VARIABLES lang, astRoot, relations, heap, result, pc

vars == <<lang, astRoot, relations, heap, result, pc>>

(***************************************************************************)
(* Bounds of the enumerated inputs.                                        *)
(***************************************************************************)
MaxSelectLen == 2
MaxLimit == 2
MaxOffset == 2

(***************************************************************************)
(* Values shared by the AST and the operator tree.                         *)
(***************************************************************************)
\* a missing codeInfo (undefined / null)
NoPos == 0
\* no RANode (null)
NoNode == 0
\* limit value the parser stores for LIMIT ALL
LimitAll == -1
\* null for a string-valued field (relAlias, alias)
NullStr == "<null>"
\* null for an object-valued field (where, groupBy, having, cond)
Null == [type |-> "null"]

NoErr == [kind |-> "none"]
\* faulty variant of ExecutionError: the position of the reference is dropped
ExecutionErrorWithoutPosition(name, codeInfo) ==
    [kind |-> "error-relation-not-found", name |-> name, codeInfo |-> NoPos]

ExecutionError(name, codeInfo) ==
    [kind |-> "error-relation-not-found", name |-> name, codeInfo |-> codeInfo]
InternalError(msg) == [kind |-> "Error", name |-> msg, codeInfo |-> NoPos]

WarnDistinctMissing == "warning-distinct-missing"
WarnIgnoredAll == "warning-ignored-all-on-set-operators"

(***************************************************************************)
(* RANode objects and the heap.                                            *)
(***************************************************************************)
RANode(kind, child, child2, arg) ==
    [kind |-> kind, child |-> child, child2 |-> child2, arg |-> arg,
     codeInfo |-> NoPos, wrapped |-> FALSE, warnings |-> <<>>, meta |-> {}]

Column(name, relAlias) == [name |-> name, relAlias |-> relAlias]

Failed(st) == st.err.kind # "none"

Throw(st, e) == IF Failed(st) THEN st ELSE [st EXCEPT !.err = e]

\* the id the next allocated object gets
NextId(st) == Len(st.heap) + 1

Alloc(st, obj) == [st EXCEPT !.heap = Append(@, obj)]

setCodeInfoObject(st, id, codeInfo) ==
    IF Failed(st) THEN st ELSE [st EXCEPT !.heap[id].codeInfo = codeInfo]

setWrappedInParentheses(st, id) ==
    IF Failed(st) THEN st ELSE [st EXCEPT !.heap[id].wrapped = TRUE]

addWarning(st, id, msg, codeInfo) ==
    IF Failed(st) THEN st
    ELSE [st EXCEPT !.heap[id].warnings =
                        Append(@, [msg |-> msg, codeInfo |-> codeInfo])]

setMetaData(st, id, key, value) ==
    IF Failed(st) THEN st
    ELSE [st EXCEPT !.heap[id].meta =
                        {m \in @ : m[1] # key} \cup {<<key, value>>}]

\* Relation.copy(): an independent duplicate of the entry, a new object
copy(st, id) == Alloc(st, st.heap[id])

\* faulty variant of RelationLeaf: the catalog entry itself, not a copy
RelationLeafShared(st, rels, name) == [st |-> st, node |-> rels[name]]

\* relations[n.name].copy(), the leaf a relation reference becomes
RelationLeaf(st, rels, name) ==
    [st |-> copy(st, rels[name]), node |-> NextId(st)]

\* typeof (relations[n.name]) === 'undefined'
RelationMissing(rels, name) == name \notin DOMAIN rels

(***************************************************************************)
(* Value expressions (immutable once built, so plain records).             *)
(***************************************************************************)
ValueExprGeneric(datatype, func, args) ==
    [class |-> "ValueExprGeneric", datatype |-> datatype, func |-> func,
     args |-> args, codeInfo |-> NoPos, wrapped |-> FALSE]

ValueExprColumnValue(name, relAlias) ==
    [class |-> "ValueExprColumnValue", datatype |-> "null",
     func |-> "columnValue", args |-> <<name, relAlias>>,
     codeInfo |-> NoPos, wrapped |-> FALSE]

ThrownExpr(msg) ==
    [class |-> "thrown", datatype |-> "null", func |-> msg, args |-> <<>>,
     codeInfo |-> NoPos, wrapped |-> FALSE]

IsThrown(e) == e.class = "thrown"

ImplementedDatatypes == {"string", "number", "boolean", "date", "null"}

RECURSIVE recValueExpr(_)
recValueExpr(n) ==
    LET annotate(node) ==
            [node EXCEPT !.codeInfo = n.codeInfo,
                         !.wrapped = (n.wrappedInParentheses = TRUE)]
    IN  IF n.datatype = "null" /\ n.func = "columnValue"
        THEN annotate(ValueExprColumnValue(n.args[1], n.args[2]))
        ELSE IF n.datatype \in ImplementedDatatypes
        THEN LET tmp == [i \in 1..Len(n.args) |->
                            IF n.func = "constant" THEN n.args[i]
                            ELSE recValueExpr(n.args[i])]
                 bad == IF n.func = "constant" THEN {}
                        ELSE {i \in 1..Len(n.args) : IsThrown(tmp[i])}
             IN  IF bad # {}
                 THEN tmp[CHOOSE i \in bad : \A j \in bad : i <= j]
                 ELSE annotate(ValueExprGeneric(n.datatype, n.func, tmp))
        ELSE ThrownExpr("not implemented yet")

\* a join condition; a thrown expression is passed on in joinExpression
parseJoinCondition(condition) ==
    IF condition.type = "null"
    THEN [type |-> "natural", restrictToColumns |-> Null,
          joinExpression |-> Null]
    ELSE IF condition.type = "columns"
    THEN [type |-> "natural", restrictToColumns |-> condition,
          joinExpression |-> Null]
    ELSE [type |-> "theta", restrictToColumns |-> Null,
          joinExpression |-> recValueExpr(condition.expr)]

JoinConditionThrown(c) ==
    c.type = "theta" /\ IsThrown(c.joinExpression)

(***************************************************************************)
(* relalgFromSQLAstRoot: the SQL translator.                               *)
(***************************************************************************)
\* a step's outcome: the translation state and the node it produced
Res(st, node) == [st |-> st, node |-> IF Failed(st) THEN NoNode ELSE node]

\* new X(...): allocate the object unless an exception is already pending
New(st, obj) ==
    IF Failed(st) THEN Res(st, NoNode) ELSE Res(Alloc(st, obj), NextId(st))

\* history: fn returned / built node for the AST node at position ast
Log(st, fn, ast, node) ==
    IF Failed(st) THEN st
    ELSE [st EXCEPT !.log = Append(@, [fn |-> fn, ast |-> ast,
                                        node |-> node])]

\* history: stage fn of parseStatement built the node of r
Built(fn, statement, r) ==
    Res(Log(r.st, fn, statement.codeInfo, r.node), r.node)

\* RANode.check() of the excluded operator classes: no effect here
check(st, id) == st

setCodeInfoFromNode(st, raNode, astNode) ==
    IF Failed(st) THEN st
    ELSE IF astNode.codeInfo = NoPos
    THEN Throw(st, InternalError("should not happen"))
    ELSE setCodeInfoObject(st, raNode, astNode.codeInfo)

\* the Selection built for WHERE and for HAVING
getSelection(st, root, condition, codeInfo) ==
    IF Failed(st) THEN Res(st, NoNode)
    ELSE LET s0 == check(st, root)
             e == recValueExpr(condition)
         IN  IF IsThrown(e) THEN Res(Throw(s0, InternalError(e.func)), NoNode)
             ELSE LET r == New(s0, RANode("Selection", root, NoNode, e))
                  IN  Res(setCodeInfoObject(r.st, r.node, codeInfo), r.node)

isNamedColumn(arg) == arg.type = "column" /\ arg.alias # NullStr

\* faulty variant of hasGroupStage: the stored aggregate count is ignored
hasGroupStageByClauseOnly(statement) == statement.groupBy.type # "null"

\* line 266: the guard of the group-by + aggregation stage
hasGroupStage(statement) ==
    statement.groupBy.type # "null" \/ statement.numAggregationColumns > 0

\* lines 271-276: filter aggFunctions from the SELECT list
aggregateFunctionsOf(projectionArgs) ==
    SelectSeq(projectionArgs, LAMBDA col : col.type = "aggFunction")

\* faulty variant of isSelectStar: the test of the qualifier is inverted
isSelectStarQualified(projectionArgs) ==
    /\ Len(projectionArgs) = 1
    /\ projectionArgs[1].type = "column"
    /\ projectionArgs[1].name = "*"
    /\ projectionArgs[1].relAlias # NullStr

\* line 301: select * => no projection needed
isSelectStar(projectionArgs) ==
    /\ Len(projectionArgs) = 1
    /\ projectionArgs[1].type = "column"
    /\ projectionArgs[1].name = "*"
    /\ projectionArgs[1].relAlias = NullStr

\* lines 255-257: the translated from-clause f becomes the first root
fromStage(f, statement) ==
    IF Failed(f.st) THEN f
    ELSE LET s1 == setCodeInfoFromNode(f.st, f.node, statement.from)
         IN  Built("from", statement, Res(check(s1, f.node), f.node))

\* lines 260-263
whereStage(r, statement) ==
    IF Failed(r.st) \/ statement.where.type = "null" THEN r
    ELSE LET s == getSelection(r.st, r.node, statement.where.arg,
                               statement.where.codeInfo)
         IN  Built("where", statement,
                   Res(setCodeInfoFromNode(s.st, s.node, statement.where),
                       s.node))

\* lines 266-290
groupStage(r, statement) ==
    IF Failed(r.st) \/ ~hasGroupStage(statement) THEN r
    ELSE LET aggregateFunctions == aggregateFunctionsOf(statement.select.arg)
             groupByCols == IF statement.groupBy.type = "null" THEN <<>>
                            ELSE statement.groupBy.cols
         IN  IF Len(aggregateFunctions) > 0
             THEN Built("group", statement,
                        New(r.st, RANode("GroupBy", r.node, NoNode,
                                         [group |-> groupByCols,
                                          aggregate |-> aggregateFunctions])))
             ELSE Built("group", statement,
                        New(r.st, RANode("Projection", r.node, NoNode,
                                         [i \in 1..Len(groupByCols) |->
                                             Column(groupByCols[i].name,
                                                    groupByCols[i].relAlias)])))

\* lines 294-297
havingStage(r, statement) ==
    IF Failed(r.st) \/ statement.having.type = "null" THEN r
    ELSE LET s == getSelection(r.st, r.node, statement.having.arg,
                               statement.having.codeInfo)
         IN  Built("having", statement,
                   Res(setCodeInfoFromNode(s.st, s.node, statement.having),
                       s.node))

\* lines 305-330: one projection entry per SELECT-list item
projectionColumn(col) ==
    IF col.type = "aggFunction" THEN Column(col.name, NullStr)
    ELSE IF col.type = "namedColumnExpr"
    THEN [name |-> col.name, relAlias |-> col.relAlias,
          child |-> recValueExpr(col.child)]
    ELSE IF col.type = "column" THEN Column(col.name, col.relAlias)
    ELSE [name |-> "this should not happen", relAlias |-> NullStr,
          child |-> ThrownExpr("this should not happen")]

projectionColumnThrown(p) == "child" \in DOMAIN p /\ IsThrown(p.child)

\* lines 300-333
projectionStage(r, statement) ==
    LET projectionArgs == statement.select.arg
    IN  IF Failed(r.st) \/ isSelectStar(projectionArgs) THEN r
        ELSE LET projections == [i \in 1..Len(projectionArgs) |->
                                    projectionColumn(projectionArgs[i])]
                 bad == {i \in 1..Len(projectionArgs) :
                            projectionColumnThrown(projections[i])}
             IN  IF bad # {}
                 THEN Res(Throw(r.st, InternalError(
                        projections[CHOOSE i \in bad : \A j \in bad : i <= j]
                            .child.func)), NoNode)
                 ELSE LET s == New(r.st, RANode("Projection", r.node, NoNode,
                                                projections))
                      IN  Built("projection", statement,
                                Res(setCodeInfoFromNode(s.st, s.node,
                                                        statement.select),
                                    s.node))

\* lines 300, 323-325: colsRenamed after the projection stage
colsRenamed(projectionArgs) ==
    /\ ~isSelectStar(projectionArgs)
    /\ \E i \in 1..Len(projectionArgs) : isNamedColumn(projectionArgs[i])

\* faulty variant of renamingsOf: the renamings in reverse order
renamingsOfReversed(projectionArgs) ==
    LET named == SelectSeq(projectionArgs, isNamedColumn)
    IN  [i \in 1..Len(named) |->
            [alias |-> named[Len(named) + 1 - i].alias,
             name |-> named[Len(named) + 1 - i].name,
             relAlias |-> named[Len(named) + 1 - i].relAlias]]

\* lines 339-344: the renamings registered by addRenaming, in order
renamingsOf(projectionArgs) ==
    LET named == SelectSeq(projectionArgs, isNamedColumn)
    IN  [i \in 1..Len(named) |->
            [alias |-> named[i].alias, name |-> named[i].name,
             relAlias |-> named[i].relAlias]]

\* lines 336-346
renameStage(r, statement) ==
    IF Failed(r.st) \/ ~colsRenamed(statement.select.arg) THEN r
    ELSE Built("rename", statement,
               New(r.st, RANode("RenameColumns", r.node, NoNode,
                                renamingsOf(statement.select.arg))))

SqlJoinKinds ==
    {"innerJoin", "leftOuterJoin", "rightOuterJoin", "fullOuterJoin"}

SqlJoinClass(type) ==
    CASE type = "innerJoin" -> "InnerJoin"
      [] type = "leftOuterJoin" -> "LeftOuterJoin"
      [] type = "rightOuterJoin" -> "RightOuterJoin"
      [] type = "fullOuterJoin" -> "FullOuterJoin"

SqlSetOps == {"union", "intersect", "except"}

SqlSetOpClass(type) ==
    CASE type = "union" -> "Union"
      [] type = "intersect" -> "Intersect"
      [] type = "except" -> "Difference"

\* lines 203-206
conditionOffset(offset) ==
    ValueExprGeneric("boolean", ">",
        <<ValueExprGeneric("number", "rownum", <<>>),
          ValueExprGeneric("number", "constant", <<offset>>)>>)

\* faulty variant of conditionLimit: the offset is not added to the limit
conditionLimitWithoutOffset(limit, offset) ==
    ValueExprGeneric("boolean", "<=",
        <<ValueExprGeneric("number", "rownum", <<>>),
          ValueExprGeneric("number", "constant", <<limit>>)>>)

\* lines 214-217
conditionLimit(limit, offset) ==
    ValueExprGeneric("boolean", "<=",
        <<ValueExprGeneric("number", "rownum", <<>>),
          ValueExprGeneric("number", "constant", <<limit + offset>>)>>)

\* lines 208-219: the condition of the Selection a limit node becomes
limitCondition(limit, offset) ==
    IF limit = LimitAll THEN conditionOffset(offset)
    ELSE ValueExprGeneric("boolean", "and",
            <<conditionOffset(offset), conditionLimit(limit, offset)>>)

\* faulty variant of warnDistinct: the test of distinct is inverted
warnDistinctInverted(st, node, n) ==
    IF n.select.distinct = TRUE
    THEN addWarning(st, node, WarnDistinctMissing, n.codeInfo)
    ELSE st

\* lines 94-96: the missing-DISTINCT advisory
warnDistinct(st, node, n) ==
    IF n.select.distinct = FALSE
    THEN addWarning(st, node, WarnDistinctMissing, n.codeInfo)
    ELSE st

\* lines 173-178: the ignored-ALL advisory
warnAll(st, node, n) ==
    IF n.all = TRUE
    THEN IF node = NoNode THEN Throw(st, InternalError("should not happen"))
         ELSE addWarning(st, node, WarnIgnoredAll, n.codeInfo)
    ELSE st

\* faulty variant of parseStatement: HAVING is applied before the grouping
parseStatementHavingFirst(f, statement) ==
    IF Failed(f.st) THEN f
    ELSE renameStage(
        projectionStage(
            groupStage(
                havingStage(
                    whereStage(fromStage(f, statement), statement),
                    statement),
                statement),
            statement),
        statement)

\* lines 251-349; f is the outcome of rec(statement.from) of line 255
parseStatement(f, statement) ==
    IF Failed(f.st) THEN f
    ELSE renameStage(
        projectionStage(
            havingStage(
                groupStage(
                    whereStage(fromStage(f, statement), statement),
                    statement),
                statement),
            statement),
        statement)

\* new X(child, arg) over a translated child
NewUnary(c, kind, arg) == New(c.st, RANode(kind, c.node, NoNode, arg))

\* new X(child, child2, arg) over two translated children
NewBinary(c1, c2, kind, arg) == New(c2.st, RANode(kind, c1.node, c2.node, arg))

\* lines 74-87
relationNode(st, rels, n) ==
    IF RelationMissing(rels, n.name)
    THEN Res(Throw(st, ExecutionError(n.name, n.codeInfo)), NoNode)
    ELSE IF n.relAlias = NullStr THEN RelationLeaf(st, rels, n.name)
    ELSE NewUnary(RelationLeaf(st, rels, n.name), "RenameRelation",
                  n.relAlias)

\* lines 89-98: s is the outcome of parseStatement(n)
statementNode(s, n) == Res(warnDistinct(s.st, s.node, n), s.node)

\* lines 156-180: node is the constructed Union, Intersect or Difference
setOperationNode(node, n) == Res(warnAll(node.st, node.node, n), node.node)

\* lines 183-194
orderByArg(n) ==
    [cols |-> [i \in 1..Len(n.arg.value) |->
                Column(n.arg.value[i].col.name, n.arg.value[i].col.relAlias)],
     asc |-> [i \in 1..Len(n.arg.value) |-> n.arg.value[i].asc]]

\* lines 227-236: what rec does with the node its switch produced
finish(r, nRaw) ==
    IF Failed(r.st) THEN Res(r.st, NoNode)
    ELSE IF r.node = NoNode
    THEN Res(Throw(r.st, InternalError("should not happen")), NoNode)
    ELSE LET s1 == IF nRaw.wrappedInParentheses = TRUE
                   THEN setWrappedInParentheses(r.st, r.node)
                   ELSE r.st
         IN  Res(Log(setCodeInfoFromNode(s1, r.node, nRaw), "rec",
                     nRaw.codeInfo, r.node), r.node)

\* the SQL-AST kinds with one operand, and the operand rec translates
SqlUnaryKinds ==
    {"statement", "renameRelation", "relationFromSubstatement", "orderBy",
     "limit"}

SqlOperand(nRaw) ==
    CASE nRaw.type = "statement" -> nRaw.from
      [] nRaw.type = "relationFromSubstatement" -> nRaw.statement
      [] OTHER -> nRaw.child

\* the cases of rec's switch with one operand, but for 'statement'; c is the
\* translated operand
sqlUnaryNode(c, nRaw) ==
    CASE nRaw.type = "renameRelation" ->
            NewUnary(c, "RenameRelation", nRaw.newRelAlias)
      [] nRaw.type = "relationFromSubstatement" ->
            NewUnary(c, "RenameRelation", nRaw.relAlias)
      [] nRaw.type = "orderBy" -> NewUnary(c, "OrderBy", orderByArg(nRaw))
      [] nRaw.type = "limit" ->
            NewUnary(c, "Selection", limitCondition(nRaw.limit, nRaw.offset))

SqlBinaryKinds == SqlJoinKinds \cup SqlSetOps \cup {"crossJoin", "naturalJoin"}

\* the cases of rec's switch with two operands, translated to c1 and c2
sqlBinaryNode(c1, c2, nRaw) ==
    CASE nRaw.type \in SqlJoinKinds ->
            NewBinary(c1, c2, SqlJoinClass(nRaw.type),
                      parseJoinCondition(nRaw.cond))
      [] nRaw.type = "crossJoin" -> NewBinary(c1, c2, "CrossJoin", Null)
      [] nRaw.type = "naturalJoin" ->
            NewBinary(c1, c2, "InnerJoin", parseJoinCondition(Null))
      [] nRaw.type \in SqlSetOps ->
            setOperationNode(
                NewBinary(c1, c2, SqlSetOpClass(nRaw.type), Null), nRaw)

\* line 121: the join condition is parsed before the operands
sqlConditionThrown(nRaw) ==
    nRaw.type \in SqlJoinKinds
        /\ JoinConditionThrown(parseJoinCondition(nRaw.cond))

RECURSIVE rec(_, _, _)
\* lines 70-237
rec(st, rels, nRaw) ==
    IF Failed(st) THEN Res(st, NoNode)
    ELSE IF nRaw.type = "relation"
    THEN finish(relationNode(st, rels, nRaw), nRaw)
    ELSE IF nRaw.type \in SqlUnaryKinds
    THEN LET c == rec(st, rels, SqlOperand(nRaw))
         IN  IF Failed(c.st) THEN c
             ELSE IF nRaw.type = "statement"
             THEN LET s == parseStatement(c, nRaw)
                  IN  IF Failed(s.st) THEN s
                      ELSE finish(statementNode(s, nRaw), nRaw)
             ELSE finish(sqlUnaryNode(c, nRaw), nRaw)
    ELSE IF nRaw.type \in SqlBinaryKinds
    THEN IF sqlConditionThrown(nRaw)
         THEN Res(Throw(st, InternalError(
                parseJoinCondition(nRaw.cond).joinExpression.func)), NoNode)
         ELSE LET c1 == rec(st, rels, nRaw.child)
              IN  IF Failed(c1.st) THEN c1
                  ELSE LET c2 == rec(c1.st, rels, nRaw.child2)
                       IN  IF Failed(c2.st) THEN c2
                           ELSE finish(sqlBinaryNode(c1, c2, nRaw), nRaw)
    ELSE Res(Throw(st, InternalError("not implemented")), NoNode)

\* line 351, with the catalog and the heap it runs on
relalgFromSQLAstRoot(h, rels, root) ==
    rec([heap |-> h, err |-> NoErr, log |-> <<>>], rels, root.child)

(***************************************************************************)
(* relalgFromRelalgAstRoot / relalgFromRelalgAstNode: the RA translator.   *)
(***************************************************************************)
RECURSIVE setAllMetaData(_, _, _)
\* lines 393-401: node.setMetaData(key, value) for every own key
setAllMetaData(st, node, metaData) ==
    IF metaData = {} THEN st
    ELSE LET m == CHOOSE x \in metaData : TRUE
         IN  setAllMetaData(setMetaData(st, node, m[1], m[2]), node,
                            metaData \ {m})

\* lines 390-406
setAdditionalData(st, astNode, node) ==
    IF Failed(st) THEN st
    ELSE LET s1 == setCodeInfoObject(st, node, astNode.codeInfo)
             s2 == setAllMetaData(s1, node, astNode.metaData)
         IN  IF astNode.wrappedInParentheses = TRUE
             THEN setWrappedInParentheses(s2, node)
             ELSE s2

\* a constructed node, annotated and returned
Annotated(r, astNode) ==
    LET s1 == setAdditionalData(r.st, astNode, r.node)
    IN  Res(Log(s1, "rec", astNode.codeInfo, r.node), r.node)

\* the RA-AST kinds whose case is: child, child2, new X(child, child2)
RaPlainBinary ==
    {"union", "intersect", "division", "difference", "crossJoin", "antiJoin"}

RaPlainBinaryClass(type) ==
    CASE type = "union" -> "Union"
      [] type = "intersect" -> "Intersect"
      [] type = "division" -> "Division"
      [] type = "difference" -> "Difference"
      [] type = "crossJoin" -> "CrossJoin"
      [] type = "antiJoin" -> "AntiJoin"

RaSemiJoins == {"leftSemiJoin", "rightSemiJoin"}

RaOuterJoins == {"leftOuterJoin", "rightOuterJoin", "fullOuterJoin"}

\* lines 466-490: the projection entries of an RA projection
raProjectionColumn(el) ==
    IF el.type = "columnName" THEN Column(el.name, el.relAlias)
    ELSE IF el.type = "namedColumnExpr"
    THEN [name |-> el.name, relAlias |-> el.relAlias,
          child |-> recValueExpr(el.child)]
    ELSE [name |-> "should not happen", relAlias |-> NullStr,
          child |-> ThrownExpr("should not happen")]

\* lines 437-447: the inline relation a table literal becomes
inlineRelation(n) ==
    [RANode("Relation", NoNode, NoNode,
            [name |-> n.name, schema |-> n.columns, rows |-> n.rows])
        EXCEPT !.meta = {<<"isInlineRelation", "true">>,
                         <<"inlineRelationDefinition", n.text>>}]

RECURSIVE recRANode(_, _, _)
\* lines 423-676
recRANode(st, rels, n) ==
    IF Failed(st) THEN Res(st, NoNode)
    ELSE
    CASE n.type = "relation" ->
            IF RelationMissing(rels, n.name)
            THEN Res(Throw(st, ExecutionError(n.name, n.codeInfo)), NoNode)
            ELSE Annotated(RelationLeaf(st, rels, n.name), n)
      [] n.type = "table" ->
            Annotated(New(st, inlineRelation(n)), n)
      [] n.type = "selection" ->
            LET child == recRANode(st, rels, n.child)
                condition == recValueExpr(n.arg)
            IN  IF Failed(child.st) THEN child
                ELSE IF IsThrown(condition)
                THEN Res(Throw(child.st, InternalError(condition.func)),
                         NoNode)
                ELSE Annotated(New(child.st, RANode("Selection", child.node,
                                                    NoNode, condition)), n)
      [] n.type = "projection" ->
            LET child == recRANode(st, rels, n.child)
                projections == [i \in 1..Len(n.arg) |->
                                    raProjectionColumn(n.arg[i])]
                bad == {i \in 1..Len(n.arg) :
                            projectionColumnThrown(projections[i])}
            IN  IF Failed(child.st) THEN child
                ELSE IF bad # {}
                THEN Res(Throw(child.st, InternalError(
                        projections[CHOOSE i \in bad : \A j \in bad : i <= j]
                            .child.func)), NoNode)
                ELSE Annotated(New(child.st, RANode("Projection", child.node,
                                                    NoNode, projections)), n)
      [] n.type = "orderBy" ->
            LET child == recRANode(st, rels, n.child)
                orderCols == [i \in 1..Len(n.arg) |->
                                Column(n.arg[i].col.name,
                                       n.arg[i].col.relAlias)]
                orderAsc == [i \in 1..Len(n.arg) |-> n.arg[i].asc]
            IN  Annotated(New(child.st, RANode("OrderBy", child.node, NoNode,
                                [cols |-> orderCols, asc |-> orderAsc])), n)
      [] n.type = "groupBy" ->
            LET child == recRANode(st, rels, n.child)
            IN  Annotated(New(child.st, RANode("GroupBy", child.node, NoNode,
                                [group |-> n.group,
                                 aggregate |-> n.aggregate])), n)
      [] n.type \in RaPlainBinary ->
            LET child == recRANode(st, rels, n.child)
                child2 == recRANode(child.st, rels, n.child2)
            IN  Annotated(New(child2.st, RANode(RaPlainBinaryClass(n.type),
                                child.node, child2.node, Null)), n)
      [] n.type = "renameColumns" ->
            LET child == recRANode(st, rels, n.child)
                renamings == [i \in 1..Len(n.arg) |->
                                [alias |-> n.arg[i].dst,
                                 name |-> n.arg[i].src.name,
                                 relAlias |-> n.arg[i].src.relAlias]]
            IN  Annotated(New(child.st, RANode("RenameColumns", child.node,
                                               NoNode, renamings)), n)
      [] n.type = "renameRelation" ->
            LET child == recRANode(st, rels, n.child)
            IN  Annotated(New(child.st, RANode("RenameRelation", child.node,
                                               NoNode, n.newRelAlias)), n)
      [] n.type = "thetaJoin" ->
            LET joinExpression == recValueExpr(n.arg)
            IN  IF IsThrown(joinExpression)
                THEN Res(Throw(st, InternalError(joinExpression.func)),
                         NoNode)
                ELSE LET child == recRANode(st, rels, n.child)
                         child2 == recRANode(child.st, rels, n.child2)
                     IN  Annotated(New(child2.st, RANode("InnerJoin",
                            child.node, child2.node,
                            [type |-> "theta", restrictToColumns |-> Null,
                             joinExpression |-> joinExpression])), n)
      [] n.type = "naturalJoin" ->
            LET child == recRANode(st, rels, n.child)
                child2 == recRANode(child.st, rels, n.child2)
            IN  Annotated(New(child2.st, RANode("InnerJoin", child.node,
                                child2.node, parseJoinCondition(Null))), n)
      [] n.type \in RaSemiJoins ->
            LET child == recRANode(st, rels, n.child)
                child2 == recRANode(child.st, rels, n.child2)
            IN  Annotated(New(child2.st, RANode("SemiJoin", child.node,
                                child2.node,
                                [isLeft |-> n.type = "leftSemiJoin"])), n)
      [] n.type \in RaOuterJoins ->
            LET child == recRANode(st, rels, n.child)
                child2 == recRANode(child.st, rels, n.child2)
                condition == parseJoinCondition(n.arg)
            IN  IF Failed(child2.st) THEN child2
                ELSE IF JoinConditionThrown(condition)
                THEN Res(Throw(child2.st, InternalError(
                            condition.joinExpression.func)), NoNode)
                ELSE Annotated(New(child2.st, RANode(SqlJoinClass(n.type),
                                child.node, child2.node, condition)), n)
      [] OTHER -> Res(st, NoNode)

\* lines 411-414 and 678
relalgFromRelalgAstRoot(h, rels, root) ==
    recRANode([heap |-> h, err |-> NoErr, log |-> <<>>], rels, root.child)

(***************************************************************************)
(* The inputs: ASTs as the parser hands them over.  Every AST node carries *)
(* its own codeInfo; within one input no two nodes share one.  A position  *)
(* is a number: a statement at base b has its select at b+1, its from      *)
(* clause at b+2 .. b+4, its where at b+5 .. b+8, its having at b+9 ..     *)
(* b+12, and a statement nested in its from clause at base b+20.           *)
(***************************************************************************)
ColumnValueAst(name, pos) ==
    [datatype |-> "null", func |-> "columnValue", args |-> <<name, NullStr>>,
     codeInfo |-> pos, wrappedInParentheses |-> FALSE]

ConstantAst(value, pos) ==
    [datatype |-> "number", func |-> "constant", args |-> <<value>>,
     codeInfo |-> pos, wrappedInParentheses |-> FALSE]

\* name = 1
CompareAst(name, pos) ==
    [datatype |-> "boolean", func |-> "=",
     args |-> <<ColumnValueAst(name, pos + 1), ConstantAst(1, pos + 2)>>,
     codeInfo |-> pos, wrappedInParentheses |-> TRUE]

RelationAst(name, relAlias, pos, paren) ==
    [type |-> "relation", name |-> name, relAlias |-> relAlias,
     codeInfo |-> pos, wrappedInParentheses |-> paren]

SqlBinaryAst(type, child, child2, pos) ==
    [type |-> type, child |-> child, child2 |-> child2,
     cond |-> [type |-> "theta", expr |-> CompareAst("a", pos + 20)],
     all |-> FALSE, codeInfo |-> pos, wrappedInParentheses |-> FALSE]

\* the SELECT-list items; the wildcard carries no alias (SQL has no * AS x)
ItemStar == [type |-> "column", name |-> "*", relAlias |-> NullStr,
             alias |-> NullStr]
ItemQualifiedStar == [type |-> "column", name |-> "*", relAlias |-> "R",
                      alias |-> NullStr]
ItemColumn == [type |-> "column", name |-> "a", relAlias |-> NullStr,
               alias |-> NullStr]
ItemAliasedX == [type |-> "column", name |-> "a", relAlias |-> NullStr,
                 alias |-> "x"]
ItemAliasedY == [type |-> "column", name |-> "b", relAlias |-> "R",
                 alias |-> "y"]
ItemAgg == [type |-> "aggFunction", aggFunction |-> "COUNT_ALL",
            name |-> "n"]
ItemExpr == [type |-> "namedColumnExpr", name |-> "e", relAlias |-> NullStr,
             child |-> ConstantAst(7, 99)]

SelectItems ==
    {ItemStar, ItemQualifiedStar, ItemColumn, ItemAliasedX, ItemAliasedY,
     ItemAgg, ItemExpr}

SelectLists == UNION {[1..n -> SelectItems] : n \in 1..MaxSelectLen}

\* the values the stored count of aggregate columns takes: none, some
NumAggValues == {0, 1}

WhereClause(b) ==
    [type |-> "where", arg |-> CompareAst("a", b + 6), codeInfo |-> b + 5]

HavingClause(b) ==
    [type |-> "having", arg |-> CompareAst("n", b + 10), codeInfo |-> b + 9]

GroupByClause ==
    [type |-> "groupBy",
     cols |-> <<[type |-> "column", name |-> "a", relAlias |-> NullStr]>>]

StatementAst(b, from, where, groupBy, numAgg, having, arg, distinct) ==
    [type |-> "statement",
     select |-> [type |-> "select", distinct |-> distinct, arg |-> arg,
                 codeInfo |-> b + 1],
     from |-> from, where |-> where, groupBy |-> groupBy, having |-> having,
     numAggregationColumns |-> numAgg,
     codeInfo |-> b, wrappedInParentheses |-> FALSE]

\* SELECT [DISTINCT] * FROM name
SimpleStatement(b, name, distinct) ==
    StatementAst(b, RelationAst(name, NullStr, b + 2, FALSE), Null, Null, 0,
                 Null, <<ItemStar>>, distinct)

\* the small statements used as operands and as sub-statements
SmallStatements(b) ==
    {SimpleStatement(b, "R", TRUE), SimpleStatement(b, "R", FALSE),
     SimpleStatement(b, "ghost", FALSE),
     StatementAst(b, RelationAst("S", "s", b + 2, TRUE), WhereClause(b),
                  Null, 0, Null, <<ItemAliasedX>>, FALSE)}

FromClauses(b) ==
    {RelationAst("R", NullStr, b + 2, FALSE),
     RelationAst("R", "r", b + 2, TRUE),
     RelationAst("ghost", NullStr, b + 2, FALSE),
     SqlBinaryAst("innerJoin", RelationAst("R", NullStr, b + 3, FALSE),
                  RelationAst("R", "r2", b + 4, FALSE), b + 2),
     SqlBinaryAst("crossJoin", RelationAst("ghost", NullStr, b + 3, FALSE),
                  RelationAst("phantom", NullStr, b + 4, FALSE), b + 2)}
    \cup {[type |-> "relationFromSubstatement", statement |-> sub,
           relAlias |-> "t", codeInfo |-> b + 2,
           wrappedInParentheses |-> FALSE] :
            sub \in {SimpleStatement(b + 20, "S", FALSE)}}

Statements(b) ==
    {StatementAst(b, from, where, groupBy, numAgg, having, arg, distinct) :
        from \in FromClauses(b), where \in {Null, WhereClause(b)},
        groupBy \in {Null, GroupByClause}, numAgg \in NumAggValues,
        having \in {Null, HavingClause(b)}, arg \in SelectLists,
        distinct \in BOOLEAN}

SetOperations ==
    {[SqlBinaryAst(type, child, child2, 10) EXCEPT !.all = all] :
        type \in SqlSetOps, child \in SmallStatements(20),
        child2 \in SmallStatements(60), all \in BOOLEAN}

Limits ==
    {[type |-> "limit", child |-> child, limit |-> limit, offset |-> offset,
      codeInfo |-> 10, wrappedInParentheses |-> FALSE] :
        child \in SmallStatements(20),
        limit \in {LimitAll} \cup (0..MaxLimit), offset \in 0..MaxOffset}

OrderBys ==
    {[type |-> "orderBy", child |-> child,
      arg |-> [value |-> <<[asc |-> asc,
                            col |-> [name |-> "a", relAlias |-> NullStr]]>>],
      codeInfo |-> 10, wrappedInParentheses |-> TRUE] :
        child \in SmallStatements(20), asc \in BOOLEAN}

SqlRoots ==
    {[type |-> "rootSql", child |-> child] :
        child \in Statements(20) \cup SetOperations \cup Limits \cup OrderBys}

\* RA-AST nodes: every one carries codeInfo, metaData, wrappedInParentheses
RaRelationAst(name, pos, metaData, paren) ==
    [type |-> "relation", name |-> name, codeInfo |-> pos,
     metaData |-> metaData, wrappedInParentheses |-> paren]

RaTableAst(pos) ==
    [type |-> "table", name |-> "T",
     columns |-> <<[name |-> "a", relAlias |-> "T", type |-> "number"]>>,
     rows |-> <<<<1>>, <<2>>>>, text |-> "{a 1 2}", codeInfo |-> pos,
     metaData |-> {}, wrappedInParentheses |-> FALSE]

RaLeaves(pos) ==
    {RaRelationAst("R", pos, {}, FALSE),
     RaRelationAst("R", pos, {<<"fromVariable", "v">>}, TRUE),
     RaRelationAst("S", pos, {}, FALSE),
     RaRelationAst("ghost", pos, {}, FALSE),
     RaRelationAst("phantom", pos, {}, FALSE),
     RaTableAst(pos)}

RaUnaryKinds ==
    {"selection", "projection", "orderBy", "groupBy", "renameColumns",
     "renameRelation"}

RaBinaryKinds ==
    RaPlainBinary \cup RaSemiJoins \cup RaOuterJoins
        \cup {"thetaJoin", "naturalJoin"}

RaUnaryArg(type, pos) ==
    CASE type = "selection" -> CompareAst("a", pos + 10)
      [] type = "projection" ->
            <<[type |-> "columnName", name |-> "a", relAlias |-> NullStr],
              [type |-> "namedColumnExpr", name |-> "e", relAlias |-> NullStr,
               child |-> ConstantAst(7, pos + 10)]>>
      [] type = "orderBy" ->
            <<[asc |-> TRUE, col |-> [name |-> "a", relAlias |-> NullStr]]>>
      [] type = "renameColumns" ->
            <<[dst |-> "x", src |-> [name |-> "a", relAlias |-> NullStr]]>>
      [] OTHER -> Null

RaUnaryAst(type, child, pos, paren) ==
    [type |-> type, child |-> child, arg |-> RaUnaryArg(type, pos),
     group |-> <<[name |-> "a", relAlias |-> NullStr]>>,
     aggregate |-> <<ItemAgg>>, newRelAlias |-> "t", codeInfo |-> pos,
     metaData |-> {}, wrappedInParentheses |-> paren]

RaBinaryAst(type, child, child2, pos) ==
    [type |-> type, child |-> child, child2 |-> child2,
     arg |-> IF type = "thetaJoin" THEN CompareAst("a", pos + 10)
             ELSE IF type = "leftOuterJoin"
             THEN [type |-> "theta", expr |-> CompareAst("a", pos + 10)]
             ELSE IF type = "rightOuterJoin"
             THEN [type |-> "columns", cols |-> <<"a">>]
             ELSE Null,
     codeInfo |-> pos, metaData |-> {<<"naturalJoinConditions", "c">>},
     wrappedInParentheses |-> FALSE]

RaRoots ==
    {[type |-> "rootRelalg", child |-> child] :
        child \in RaLeaves(1)
            \cup {RaUnaryAst(type, c, 1, paren) :
                    type \in RaUnaryKinds, c \in RaLeaves(2),
                    paren \in BOOLEAN}
            \cup {RaBinaryAst(type, c, c2, 1) :
                    type \in RaBinaryKinds, c \in RaLeaves(2),
                    c2 \in RaLeaves(3)}
            \cup {RaUnaryAst("selection", RaBinaryAst(type, c, c2, 4), 1,
                             FALSE) :
                    type \in {"union", "thetaJoin"}, c \in RaLeaves(2),
                    c2 \in RaLeaves(3)}}

(***************************************************************************)
(* The catalog, and the state machine: one translation of one input.       *)
(***************************************************************************)
CatalogNames == <<"R", "S">>

CatalogEntry(name) ==
    RANode("Relation", NoNode, NoNode,
           [name |-> name,
            schema |-> <<[name |-> "a", relAlias |-> name,
                          type |-> "number"]>>,
            rows |-> <<<<1>>>>])

\* the heap before a translation: the catalog's Relation objects
CatalogHeap == [i \in 1..Len(CatalogNames) |-> CatalogEntry(CatalogNames[i])]

\* relations: { [key: string]: Relation }, name -> object
Catalog ==
    [name \in {CatalogNames[i] : i \in 1..Len(CatalogNames)} |->
        CHOOSE i \in 1..Len(CatalogNames) : CatalogNames[i] = name]

NoResult == [status |-> "none", root |-> NoNode, err |-> NoErr, log |-> <<>>]

\* what the caller sees: the returned root or the exception
Outcome(r) ==
    [status |-> IF Failed(r.st) THEN "error" ELSE "ok",
     root |-> r.node, err |-> r.st.err, log |-> r.st.log]

Init ==
    /\ relations = Catalog
    /\ heap = CatalogHeap
    /\ \/ lang = "sql" /\ astRoot \in SqlRoots
       \/ lang = "ra" /\ astRoot \in RaRoots
    /\ result = NoResult
    /\ pc = "ready"

\* a call of relalgFromSQLAstRoot(astRoot, relations)
TranslateSQL ==
    /\ pc = "ready"
    /\ lang = "sql"
    /\ LET r == relalgFromSQLAstRoot(heap, relations, astRoot)
       IN  /\ heap' = r.st.heap
           /\ result' = Outcome(r)
    /\ pc' = "done"
    /\ UNCHANGED <<lang, astRoot, relations>>

\* a call of relalgFromRelalgAstRoot(astRoot, relations)
TranslateRA ==
    /\ pc = "ready"
    /\ lang = "ra"
    /\ LET r == relalgFromRelalgAstRoot(heap, relations, astRoot)
       IN  /\ heap' = r.st.heap
           /\ result' = Outcome(r)
    /\ pc' = "done"
    /\ UNCHANGED <<lang, astRoot, relations>>

Next == TranslateSQL \/ TranslateRA

Spec == Init /\ [][Next]_vars

(***************************************************************************)
(* Reading a finished translation: the AST handed in, the returned tree in *)
(* the heap, and the history kept in result.log.                           *)
(***************************************************************************)
Done == pc = "done"

Ok == pc = "done" /\ result.status = "ok"

SqlOk == Ok /\ lang = "sql"

\* the operands of an AST node in the order the translators visit them
Operands(n) ==
    IF "from" \in DOMAIN n THEN <<n.from>>
    ELSE IF "statement" \in DOMAIN n THEN <<n.statement>>
    ELSE IF "child2" \in DOMAIN n THEN <<n.child, n.child2>>
    ELSE IF "child" \in DOMAIN n THEN <<n.child>>
    ELSE <<>>

RECURSIVE AstSeq(_)
\* the nodes of an AST, a node before its operands, operands left to right
AstSeq(n) ==
    LET ops == Operands(n)
    IN  IF Len(ops) = 0 THEN <<n>>
        ELSE IF Len(ops) = 1 THEN <<n>> \o AstSeq(ops[1])
        ELSE <<n>> \o AstSeq(ops[1]) \o AstSeq(ops[2])

AstNodes == {AstSeq(astRoot.child)[i] : i \in DOMAIN AstSeq(astRoot.child)}

StatementsOfAst == {n \in AstNodes : n.type = "statement"}

\* the node the history records for fn at AST position pos (NoNode: none)
LogNode(fn, pos) ==
    LET I == {i \in DOMAIN result.log :
                result.log[i].fn = fn /\ result.log[i].ast = pos}
    IN  IF I = {} THEN NoNode ELSE result.log[CHOOSE i \in I : TRUE].node

\* the node rec returned for the AST node n
Returned(n) == LogNode("rec", n.codeInfo)

RECURSIVE TreeSeq(_)
\* the nodes of the tree under id in the heap, one entry per occurrence
TreeSeq(id) ==
    IF id = NoNode THEN <<>>
    ELSE <<id>> \o TreeSeq(heap[id].child) \o TreeSeq(heap[id].child2)

TreeNodes(id) == {TreeSeq(id)[i] : i \in DOMAIN TreeSeq(id)}

(***************************************************************************)
(* C1: the Selection a limit node becomes.                                 *)
(***************************************************************************)
\* e is the comparison  rownum op k
IsRownumComparison(e, op, k) ==
    /\ e.class = "ValueExprGeneric" /\ e.datatype = "boolean" /\ e.func = op
    /\ Len(e.args) = 2
    /\ e.args[1].func = "rownum" /\ e.args[1].datatype = "number"
    /\ e.args[2].func = "constant" /\ e.args[2].datatype = "number"
    /\ e.args[2].args = <<k>>

\* the value of a numeric expression for the row with ordinal r
NumberAtRow(e, r) == IF e.func = "rownum" THEN r ELSE e.args[1]

RECURSIVE HoldsAtRow(_, _)
\* whether the row with ordinal r passes the condition e
HoldsAtRow(e, r) ==
    CASE e.func = "and" -> HoldsAtRow(e.args[1], r) /\ HoldsAtRow(e.args[2], r)
      [] e.func = ">" -> NumberAtRow(e.args[1], r) > NumberAtRow(e.args[2], r)
      [] e.func = "<=" ->
            NumberAtRow(e.args[1], r) <= NumberAtRow(e.args[2], r)
      [] OTHER -> FALSE

\* the row ordinals the bounded inputs can tell apart
RowOrdinals == 0..(MaxLimit + MaxOffset + 2)

\* C1: a successfully translated limit node with offset o and limit l is a
\* Selection over the translated child; its condition is rownum > o when
\* l = -1 and (rownum > o) and (rownum <= l + o) otherwise, so the row with
\* ordinal r passes iff o < r and (l = -1 or r <= o + l).
C1_LimitSelection ==
    (SqlOk /\ astRoot.child.type = "limit") =>
        LET n == astRoot.child
            sel == heap[result.root]
        IN  /\ sel.kind = "Selection"
            /\ sel.child = Returned(n.child) /\ sel.child # NoNode
            /\ sel.child2 = NoNode
            /\ IF n.limit = -1
               THEN IsRownumComparison(sel.arg, ">", n.offset)
               ELSE /\ sel.arg.func = "and" /\ sel.arg.datatype = "boolean"
                    /\ Len(sel.arg.args) = 2
                    /\ IsRownumComparison(sel.arg.args[1], ">", n.offset)
                    /\ IsRownumComparison(sel.arg.args[2], "<=",
                                          n.limit + n.offset)
            /\ \A r \in RowOrdinals :
                    HoldsAtRow(sel.arg, r) <=>
                        (n.offset < r /\ (n.limit = -1 \/ r <= n.offset + n.limit))

\* a LIMIT 2 OFFSET 1 has been translated
C1_Witness ==
    /\ SqlOk /\ astRoot.child.type = "limit"
    /\ astRoot.child.limit = 2 /\ astRoot.child.offset = 1
    /\ heap[result.root].arg.func = "and"

(***************************************************************************)
(* The layers parseStatement builds for one statement.                     *)
(***************************************************************************)
\* the node stage fn of parseStatement built for statement s (NoNode: none)
StageNode(fn, s) == LogNode(fn, s.codeInfo)

\* the kind of that node ("none" when the stage built nothing)
StageKind(fn, s) ==
    IF StageNode(fn, s) = NoNode THEN "none" ELSE heap[StageNode(fn, s)].kind

HasAggFunction(s) ==
    \E i \in DOMAIN s.select.arg : s.select.arg[i].type = "aggFunction"

HasGroupByClause(s) == s.groupBy.type # "null"

GroupByInserted(s) == StageKind("group", s) = "GroupBy"

FallbackProjectionInserted(s) == StageKind("group", s) = "Projection"

\* the SELECT list is the single bare wildcard
IsBareWildcard(s) ==
    /\ Len(s.select.arg) = 1
    /\ s.select.arg[1].type = "column"
    /\ s.select.arg[1].name = "*"
    /\ s.select.arg[1].relAlias = NullStr

\* the statement asks for grouping: a clause, or a stored aggregate count
GroupingRequested(s) == HasGroupByClause(s) \/ s.numAggregationColumns > 0

IsAliasedColumn(item) == item.type = "column" /\ item.alias # NullStr

AliasedItems(s) == SelectSeq(s.select.arg, IsAliasedColumn)

\* C3: for every translated statement a RenameColumns layer is inserted iff
\* some SELECT-list item is a plain column with an alias; then its child is
\* the Projection built for the SELECT list and its renamings are one
\* (alias <- name, relation alias) per aliased item in SELECT-list order;
\* without aliased item the statement's layers end with the Projection (or,
\* for the bare wildcard, without one) and the statement returns that layer.
C3_RenameColumns ==
    SqlOk =>
        \A s \in StatementsOfAst :
            /\ StageNode("rename", s) # NoNode <=> Len(AliasedItems(s)) > 0
            /\ StageNode("rename", s) # NoNode =>
                LET ren == heap[StageNode("rename", s)]
                IN  /\ ren.kind = "RenameColumns"
                    /\ ren.child = StageNode("projection", s)
                    /\ ren.child # NoNode /\ ren.child2 = NoNode
                    /\ heap[ren.child].kind = "Projection"
                    /\ Len(heap[ren.child].arg) = Len(s.select.arg)
                    /\ Len(ren.arg) = Len(AliasedItems(s))
                    /\ \A i \in DOMAIN ren.arg :
                            /\ ren.arg[i].alias = AliasedItems(s)[i].alias
                            /\ ren.arg[i].name = AliasedItems(s)[i].name
                            /\ ren.arg[i].relAlias = AliasedItems(s)[i].relAlias
                    /\ Returned(s) = StageNode("rename", s)
            /\ (StageNode("rename", s) = NoNode /\ ~IsBareWildcard(s)) =>
                    /\ StageKind("projection", s) = "Projection"
                    /\ Returned(s) = StageNode("projection", s)

\* SELECT a AS x, R.b AS y ... has been translated
C3_Witness ==
    /\ SqlOk /\ astRoot.child.type = "statement"
    /\ Len(AliasedItems(astRoot.child)) = 2
    /\ AliasedItems(astRoot.child)[1].alias # AliasedItems(astRoot.child)[2].alias
    /\ heap[result.root].kind = "RenameColumns"

(***************************************************************************)
(* C4: the bare wildcard and Projection layers.                            *)
(***************************************************************************)
StageNames == <<"from", "where", "group", "having", "projection", "rename">>

\* the layers above the FROM subtree that are Projections
ProjectionLayers(s) ==
    {fn \in {"where", "group", "having", "projection", "rename"} :
        StageKind(fn, s) = "Projection"}

\* C4 as stated: for a translated statement whose SELECT list is the bare
\* wildcard no Projection is among the layers built for it.
C4_AsStated ==
    SqlOk =>
        \A s \in StatementsOfAst :
            IsBareWildcard(s) => ProjectionLayers(s) = {}

\* C4: for a translated statement whose SELECT list is the bare wildcard the
\* projection stage inserts no Projection (and no RenameColumns follows);
\* the only Projection that can be among its layers is the fallback of the
\* grouping stage, present exactly when grouping is requested (GROUP BY
\* clause present or numAggregationColumns > 0).
C4_BareWildcard ==
    SqlOk =>
        \A s \in StatementsOfAst :
            IsBareWildcard(s) =>
                /\ StageNode("projection", s) = NoNode
                /\ StageNode("rename", s) = NoNode
                /\ ProjectionLayers(s) =
                        IF GroupingRequested(s) THEN {"group"} ELSE {}

\* SELECT * ... WHERE ... GROUP BY ... HAVING ... has been translated: the
\* HAVING Selection is the root, over the fallback Projection
C4_Witness ==
    /\ SqlOk /\ astRoot.child.type = "statement"
    /\ IsBareWildcard(astRoot.child)
    /\ astRoot.child.where.type # "null" /\ astRoot.child.having.type # "null"
    /\ HasGroupByClause(astRoot.child)
    /\ heap[result.root].kind = "Selection"
    /\ heap[heap[result.root].child].kind = "Projection"

(***************************************************************************)
(* C5: source positions on the returned tree.                              *)
(***************************************************************************)
\* C5 as stated: after a successful translation every node of the returned
\* tree carries a source position.
C5_AsStated ==
    Ok => \A id \in TreeNodes(result.root) : heap[id].codeInfo # NoPos

(***************************************************************************)
(* C6: references to relations the catalog does not hold.                  *)
(***************************************************************************)
\* the relation references of the AST, in the order they are reached
RelationRefs == SelectSeq(AstSeq(astRoot.child), LAMBDA n : n.type = "relation")

MissingRefs ==
    SelectSeq(RelationRefs, LAMBDA n : n.name \notin DOMAIN relations)

CatalogIds == 1..Len(CatalogHeap)

\* the leaves of the returned tree that are Relations, one per occurrence
RelationLeaves ==
    SelectSeq(TreeSeq(result.root), LAMBDA id : heap[id].kind = "Relation")

\* the annotations a translator applies to a node
Annotations(obj) ==
    <<obj.codeInfo, obj.wrapped, obj.warnings, obj.meta>>

\* C7: after any translation the catalog and its entries are unchanged;
\* every Relation leaf of a returned tree is an object of its own, neither
\* a catalog entry nor another leaf, and a leaf that refers to a catalog
\* relation holds that entry's content.
C7_FreshCopies ==
    Done =>
        /\ relations = Catalog
        /\ \A i \in CatalogIds : heap[i] = CatalogHeap[i]
        /\ Ok =>
            /\ \A i \in DOMAIN RelationLeaves : RelationLeaves[i] \notin CatalogIds
            /\ \A i, j \in DOMAIN RelationLeaves :
                    i # j => RelationLeaves[i] # RelationLeaves[j]
            /\ \A i \in DOMAIN RelationLeaves :
                    heap[RelationLeaves[i]].arg.name \in DOMAIN relations =>
                        heap[RelationLeaves[i]].arg
                            = heap[relations[heap[RelationLeaves[i]].arg.name]].arg

\* two references to R in one input were translated, and the two leaves
\* carry different annotations
C7_Witness ==
    /\ Ok /\ Len(RelationLeaves) = 2
    /\ heap[RelationLeaves[1]].arg.name = "R"
    /\ heap[RelationLeaves[2]].arg.name = "R"
    /\ Annotations(heap[RelationLeaves[1]]) # Annotations(heap[RelationLeaves[2]])
    /\ Annotations(heap[RelationLeaves[1]]) # Annotations(heap[relations["R"]])

(***************************************************************************)
(* C8: the two advisories.                                                 *)
(***************************************************************************)
HasWarning(id, msg) ==
    \E i \in DOMAIN heap[id].warnings : heap[id].warnings[i].msg = msg

RECURSIVE Normalized(_)
\* the same AST with DISTINCT on every statement and ALL on no set operator
Normalized(n) ==
    IF n.type = "relation" THEN n
    ELSE IF n.type = "statement"
    THEN [n EXCEPT !.select.distinct = TRUE, !.from = Normalized(n.from)]
    ELSE IF n.type = "relationFromSubstatement"
    THEN [n EXCEPT !.statement = Normalized(n.statement)]
    ELSE IF n.type \in SqlSetOps
    THEN [n EXCEPT !.all = FALSE, !.child = Normalized(n.child),
                   !.child2 = Normalized(n.child2)]
    ELSE IF "child2" \in DOMAIN n
    THEN [n EXCEPT !.child = Normalized(n.child),
                   !.child2 = Normalized(n.child2)]
    ELSE [n EXCEPT !.child = Normalized(n.child)]

RECURSIVE Shape(_, _)
\* kinds and children of the tree under id in heap h
Shape(h, id) ==
    IF id = NoNode THEN <<>>
    ELSE <<h[id].kind, Shape(h, h[id].child), Shape(h, h[id].child2)>>

\* the translation of the normalized AST, from the same catalog
NormalizedRun ==
    relalgFromSQLAstRoot(CatalogHeap, Catalog,
                         [astRoot EXCEPT !.child = Normalized(astRoot.child)])

\* C8: the node returned for a statement carries the missing-DISTINCT
\* warning iff select.distinct is false; the node produced for a union,
\* intersect or except carries the ignored-ALL warning iff all is true; the
\* translation succeeds or fails as that of the AST with distinct = true
\* and all = false does, and yields a tree of the same kinds and children.
C8_Advisories ==
    (Done /\ lang = "sql") =>
        /\ (result.status = "ok") <=> ~Failed(NormalizedRun.st)
        /\ Ok =>
            /\ Shape(heap, result.root)
                    = Shape(NormalizedRun.st.heap, NormalizedRun.node)
            /\ \A n \in AstNodes :
                /\ n.type = "statement" =>
                    (HasWarning(Returned(n), WarnDistinctMissing)
                        <=> n.select.distinct = FALSE)
                /\ n.type \in SqlSetOps =>
                    /\ heap[Returned(n)].kind = SqlSetOpClass(n.type)
                    /\ HasWarning(Returned(n), WarnIgnoredAll) <=> n.all = TRUE

\* a UNION ALL of a statement with DISTINCT and one without was translated
C8_Witness ==
    /\ SqlOk /\ astRoot.child.type = "union" /\ astRoot.child.all = TRUE
    /\ astRoot.child.child.select.distinct = TRUE
    /\ astRoot.child.child2.select.distinct = FALSE
    /\ HasWarning(result.root, WarnIgnoredAll)
    /\ HasWarning(heap[result.root].child2, WarnDistinctMissing)

(***************************************************************************)
(* C9: the order of the layers of a statement.                             *)
(***************************************************************************)
RECURSIVE PathUp(_, _)
\* the nodes from bottom up to top along child links, innermost first
PathUp(top, bottom) ==
    IF top = NoNode THEN <<>>
    ELSE IF top = bottom THEN <<top>>
    ELSE Append(PathUp(heap[top].child, bottom), top)

\* the stages that built a node for s, in the fixed order of the stages
StagesBuilt(s) ==
    SelectSeq(StageNames, LAMBDA fn : StageNode(fn, s) # NoNode)

\* the position in the history of the entry of stage fn for s
StageIndex(fn, s) ==
    CHOOSE i \in DOMAIN result.log :
        result.log[i].fn = fn /\ result.log[i].ast = s.codeInfo

StageKindAllowed(fn, kind) ==
    CASE fn = "from" -> TRUE
      [] fn = "where" -> kind = "Selection"
      [] fn = "group" -> kind \in {"GroupBy", "Projection"}
      [] fn = "having" -> kind = "Selection"
      [] fn = "projection" -> kind = "Projection"
      [] fn = "rename" -> kind = "RenameColumns"

\* C9: for every translated statement the nodes from the translated FROM
\* subtree up to the node the statement returns are exactly the nodes its
\* stages built, in the order FROM, WHERE, grouping, HAVING, projection,
\* rename; the stages ran in that order, each built at most one node, of
\* its own kind, with the previous stage's root as only child; the WHERE
\* and HAVING stages built one iff the clause is present; and a statement
\* SELECT * without WHERE, GROUP BY, stored aggregate count and HAVING
\* returns the translated FROM node itself.
C9_LayerOrder ==
    SqlOk =>
        \A s \in StatementsOfAst :
            LET built == StagesBuilt(s)
                path == PathUp(Returned(s), Returned(s.from))
            IN  /\ Len(built) >= 1 /\ built[1] = "from"
                /\ StageNode("from", s) = Returned(s.from)
                /\ path = [i \in DOMAIN built |-> StageNode(built[i], s)]
                /\ \A i \in DOMAIN built :
                        /\ StageKindAllowed(built[i], heap[path[i]].kind)
                        /\ i > 1 =>
                            /\ heap[path[i]].child = path[i - 1]
                            /\ heap[path[i]].child2 = NoNode
                            /\ StageIndex(built[i - 1], s) < StageIndex(built[i], s)
                            /\ path[i - 1] < path[i]
                /\ StageNode("where", s) # NoNode <=> s.where.type # "null"
                /\ StageNode("having", s) # NoNode <=> s.having.type # "null"
                /\ (IsBareWildcard(s) /\ s.where.type = "null"
                        /\ ~GroupingRequested(s) /\ s.having.type = "null") =>
                            Returned(s) = Returned(s.from)

\* a statement for which all six stages built a layer has been translated
C9_Witness ==
    /\ SqlOk /\ astRoot.child.type = "statement"
    /\ Len(StagesBuilt(astRoot.child)) = 6
    /\ heap[StageNode("group", astRoot.child)].kind = "GroupBy"

(***************************************************************************)
(* C10: the position on the WHERE and HAVING Selections.                   *)
(***************************************************************************)
\* C10 as stated: in the returned tree the Selection built for a WHERE
\* clause carries the position of that clause and the Selection built for
\* a HAVING clause carries the position of that clause.
C10_AsStated ==
    SqlOk =>
        \A s \in StatementsOfAst :
            /\ s.where.type # "null" =>
                    heap[StageNode("where", s)].codeInfo = s.where.codeInfo
            /\ s.having.type # "null" =>
                    heap[StageNode("having", s)].codeInfo = s.having.codeInfo
====
